---- MODULE Spec2Model ----
(***************************************************************************)
(* The AEAD bindings of node-sodium (src/src/crypto_aead.cc): the          *)
(* aes256gcm precompute family (beforenm and the four *_afternm handlers), *)
(* the key-based families CRYPTO_AEAD_DEF / CRYPTO_AEAD_DETACHED_DEF       *)
(* expand to, the argument macros they are written with, and the libsodium *)
(* primitive they delegate to.                                             *)
(*                                                                         *)
(* A JavaScript caller holds a message, associated data, a nonce and a key *)
(* (as in the samples of the source's comments), calls the exported        *)
(* functions with them or with wrong-shaped variants of them, and keeps or *)
(* drops what a call returned.                                             *)
(***************************************************************************)
EXTENDS Integers, Sequences, FiniteSets, TLC

VARIABLES
    available,       \* crypto_aead_aes256gcm_is_available() of this host
    algo,            \* the algorithm family the caller uses
    message,         \* caller's plain text (a byte sequence)
    additionalData,  \* caller's additional data (a JS value: null or a buffer)
    state,           \* caller's `var state = ...beforenm(key)` (a JS value)
    held,            \* the encrypt output the caller kept
    last             \* the call that has just returned

vars == <<available, algo, message, additionalData, state, held, last>>

(***************************************************************************)
(* Bounds of the model.                                                    *)
(***************************************************************************)
MaxMsgLen == 2
MaxAdLen == 1

(***************************************************************************)
(* JavaScript values crossing the boundary.                                *)
(***************************************************************************)
Undefined == [t |-> "undefined", b |-> <<>>, mac |-> <<>>]
Null == [t |-> "null", b |-> <<>>, mac |-> <<>>]
Boolean(v) == [t |-> IF v THEN "true" ELSE "false", b |-> <<>>, mac |-> <<>>]
Buffer(bytes) == [t |-> "buffer", b |-> bytes, mac |-> <<>>]
\* { cipherText: <buffer>, mac: <buffer> }
Object(cipherText, mac) == [t |-> "object", b |-> cipherText, mac |-> mac]

IsBuffer(v) == v.t = "buffer"

\* info[i], 0-based; an argument that was not passed reads as undefined
Arg(info, i) == IF i < Len(info) THEN info[i + 1] ELSE Undefined

Zeros(n) == [i \in 1..n |-> 0]
Fill(n, byte) == [i \in 1..n |-> byte]

(***************************************************************************)
(* Algorithm parameters (libsodium's crypto_aead_*_KEYBYTES, _NPUBBYTES,   *)
(* _ABYTES and crypto_aead_aes256gcm_statebytes()).                         *)
(***************************************************************************)
Algos == {"aes256gcm", "chacha20poly1305", "chacha20poly1305_ietf",
          "xchacha20poly1305_ietf"}

KEYBYTES(a) == 32
NPUBBYTES(a) ==
    CASE a = "aes256gcm" -> 12
      [] a = "chacha20poly1305" -> 8
      [] a = "chacha20poly1305_ietf" -> 12
      [] a = "xchacha20poly1305_ietf" -> 24
ABYTES(a) == 16
crypto_aead_aes256gcm_statebytes == 512

(***************************************************************************)
(* The external primitive: a deterministic double of the libsodium AEAD    *)
(* transform.  A stream of key- and nonce-dependent bytes is added to the  *)
(* message, and the tag is a digest of key, nonce, associated data and     *)
(* cipher text.                                                            *)
(***************************************************************************)
RECURSIVE DigestTo(_, _)
DigestTo(s, n) == IF n = 0 THEN 1 ELSE (DigestTo(s, n - 1) * 31 + s[n] + 1) % 256
Digest(s) == DigestTo(s, Len(s))

AlgoTweak(a) ==
    CASE a = "aes256gcm" -> 1
      [] a = "chacha20poly1305" -> 2
      [] a = "chacha20poly1305_ietf" -> 3
      [] a = "xchacha20poly1305_ietf" -> 4

KeyStream(a, k, npub, i) == (Digest(k) + 3 * Digest(npub) + 7 * i + AlgoTweak(a)) % 256

Mac(a, k, npub, ad, c) ==
    LET h == (5 * Digest(k) + 3 * Digest(npub) + 7 * Digest(ad) + 11 * Digest(c)
              + AlgoTweak(a)) % 256
    IN  [j \in 1..ABYTES(a) |-> (h + 13 * j) % 256]

\* aead_encrypt: (ciphertext, tag)
aead_encrypt_detached(a, k, npub, m, ad) ==
    LET c == [i \in 1..Len(m) |-> (m[i] + KeyStream(a, k, npub, i)) % 256]
    IN  [c |-> c, mac |-> Mac(a, k, npub, ad, c)]

\* combined layout: ciphertext || tag
aead_encrypt(a, k, npub, m, ad) ==
    LET r == aead_encrypt_detached(a, k, npub, m, ad) IN r.c \o r.mac

\* aead_decrypt: msg | failure.  On a tag mismatch the bytes the primitive
\* has produced so far are still in its output.
aead_decrypt_detached(a, k, npub, c, mac, ad) ==
    [rc |-> IF Mac(a, k, npub, ad, c) = mac THEN 0 ELSE -1,
     m  |-> [i \in 1..Len(c) |-> (c[i] + 256 - KeyStream(a, k, npub, i)) % 256]]

aead_decrypt(a, k, npub, c, ad) ==
    LET n == Len(c) - ABYTES(a)
    IN  aead_decrypt_detached(a, k, npub, SubSeq(c, 1, n), SubSeq(c, n + 1, Len(c)), ad)

\* derive_context: the key schedule
derive_context(k) ==
    [i \in 1..crypto_aead_aes256gcm_statebytes |->
        (k[((i - 1) % Len(k)) + 1] + i) % 256]

\* the key material a state holds
StateKey(st) == [i \in 1..KEYBYTES("aes256gcm") |-> (st[i] + 256 - i) % 256]

\* the state as aead_encrypt / aead_decrypt leave it: they read it
primitive_state_after(st) == st

\* hardware_supported: the aes256gcm primitives report failure on a host
\* without support; `fault` is a primitive-internal fault
PrimFails(a, fault) == fault \/ (a = "aes256gcm" /\ ~available)

(***************************************************************************)
(* The argument macros of node_sodium.h the handlers are written with.     *)
(* Each yields the error it throws, or NoError; a handler returns at the   *)
(* first error, in the order its macros are written.                       *)
(***************************************************************************)
NoError == [kind |-> "none", arg |-> ""]
InvalidArgument(name) == [kind |-> "InvalidArgument", arg |-> name]
InvalidLength(name) == [kind |-> "InvalidLength", arg |-> name]

ARGS(info, n) == IF Len(info) < n THEN InvalidArgument("arguments") ELSE NoError

ARG_TO_UCHAR_BUFFER(info, argn, NAME) ==
    IF IsBuffer(Arg(info, argn)) THEN NoError ELSE InvalidArgument(NAME)

ARG_TO_UCHAR_BUFFER_LEN(info, argn, NAME, LEN) ==
    IF ~IsBuffer(Arg(info, argn)) THEN InvalidArgument(NAME)
    ELSE IF Len(Arg(info, argn).b) # LEN THEN InvalidLength(NAME)
    ELSE NoError

\* never throws: anything that is not a buffer is the NULL pointer, size 0
ARG_TO_UCHAR_BUFFER_OR_NULL(info, argn, NAME) == NoError
PtrOrNull(v) == IF IsBuffer(v) THEN v.b ELSE <<>>

RECURSIVE FirstErrorFrom(_, _)
FirstErrorFrom(checks, i) ==
    IF i > Len(checks) THEN NoError
    ELSE IF checks[i] # NoError THEN checks[i]
    ELSE FirstErrorFrom(checks, i + 1)
FirstError(checks) == FirstErrorFrom(checks, 1)

\* NEW_BUFFER_AND_PTR: a fresh buffer of n bytes, holding whatever the heap held
NEW_BUFFER_AND_PTR(n, junk) == Fill(n, junk)
sodium_memzero(buf, n) == [i \in 1..Len(buf) |-> IF i <= n THEN 0 ELSE buf[i]]
\* the primitive writes its output at the start of the buffer it was given
Write(buf, data) == [i \in 1..Len(buf) |-> IF i <= Len(data) THEN data[i] ELSE buf[i]]

(***************************************************************************)
(* What a call leaves behind: the value returned, the exception thrown,    *)
(* how often the primitive was invoked, its return code, and the output    *)
(* buffer as it was when the primitive was invoked.                        *)
(***************************************************************************)
Thrown(e) == [ret |-> Null, err |-> e, prim |-> 0, rc |-> <<>>, out0 |-> <<>>]
Returned(v, rc, out0) ==
    [ret |-> v, err |-> NoError, prim |-> 1, rc |-> <<rc>>, out0 |-> out0]

\* the ctx argument as a *_afternm call `r` leaves it, wiped once the
\* primitive has used it
Mutant_ctx_wiped_after_use(ctx, r) ==
    IF r.prim = 1 THEN Buffer(Zeros(Len(ctx.b))) ELSE ctx

\* the ctx argument as a *_afternm call `r` leaves it: the handlers take its
\* length and hand it to the primitive, and write through c_ptr, mac_ptr and
\* m_ptr only
ctx_after(ctx, r) ==
    IF r.prim = 1 THEN Buffer(primitive_state_after(ctx.b)) ELSE ctx

(***************************************************************************)
(* The aes256gcm handlers of crypto_aead.cc.                               *)
(***************************************************************************)
crypto_aead_aes256gcm_is_available ==
    [ret |-> IF available THEN Boolean(TRUE) ELSE Boolean(FALSE),
     err |-> NoError, prim |-> 0, rc |-> <<>>, out0 |-> <<>>]

\* crypto_aead_aes256gcm_beforenm returning its buffer whatever the key
\* expansion reported
Mutant_beforenm_ignores_rc(info, fault, junk) ==
    LET e == FirstError(<<
                ARGS(info, 1),
                ARG_TO_UCHAR_BUFFER_LEN(info, 0, "key", KEYBYTES("aes256gcm"))>>)
        ctxt0 == NEW_BUFFER_AND_PTR(crypto_aead_aes256gcm_statebytes, junk)
        rc == IF PrimFails("aes256gcm", fault) THEN -1 ELSE 0
        ctxt == IF rc = 0 THEN Write(ctxt0, derive_context(Arg(info, 0).b)) ELSE ctxt0
    IN  IF e # NoError THEN Thrown(e)
        ELSE Returned(Buffer(ctxt), rc, ctxt0)

crypto_aead_aes256gcm_beforenm(info, fault, junk) ==
    LET e == FirstError(<<
                ARGS(info, 1),
                ARG_TO_UCHAR_BUFFER_LEN(info, 0, "key", KEYBYTES("aes256gcm"))>>)
        key == Arg(info, 0).b
        ctxt0 == NEW_BUFFER_AND_PTR(crypto_aead_aes256gcm_statebytes, junk)
        rc == IF PrimFails("aes256gcm", fault) THEN -1 ELSE 0
        ctxt == IF rc = 0 THEN Write(ctxt0, derive_context(key)) ELSE ctxt0
    IN  IF e # NoError THEN Thrown(e)
        ELSE IF rc = 0 THEN Returned(Buffer(ctxt), rc, ctxt0)
        ELSE Returned(Undefined, rc, ctxt0)

\* crypto_aead_aes256gcm_encrypt_afternm passing no additional data on
Mutant_encrypt_afternm_drops_ad(info, fault, junk) ==
    LET a == "aes256gcm"
        e == FirstError(<<
                ARGS(info, 4),
                ARG_TO_UCHAR_BUFFER(info, 0, "m"),
                ARG_TO_UCHAR_BUFFER_LEN(info, 2, "npub", NPUBBYTES(a)),
                ARG_TO_UCHAR_BUFFER_LEN(info, 3, "ctx", crypto_aead_aes256gcm_statebytes)>>)
        m == Arg(info, 0).b
        c0 == sodium_memzero(NEW_BUFFER_AND_PTR(ABYTES(a) + Len(m), junk),
                             ABYTES(a) + Len(m))
        rc == IF PrimFails(a, fault) THEN -1 ELSE 0
        c == IF rc = 0
             THEN Write(c0, aead_encrypt(a, StateKey(Arg(info, 3).b), Arg(info, 2).b, m,
                                         <<>>))
             ELSE c0
    IN  IF e # NoError THEN Thrown(e)
        ELSE IF rc = 0 THEN Returned(Buffer(c), rc, c0)
        ELSE Returned(Undefined, rc, c0)

\* crypto_aead_aes256gcm_encrypt_afternm refusing to run on a host without
\* hardware support
Mutant_encrypt_afternm_gated(info, fault, junk) ==
    LET a == "aes256gcm"
        e == FirstError(<<
                IF ~available THEN [kind |-> "UnsupportedAlgorithm", arg |-> a]
                              ELSE NoError,
                ARGS(info, 4),
                ARG_TO_UCHAR_BUFFER(info, 0, "m"),
                ARG_TO_UCHAR_BUFFER_LEN(info, 2, "npub", NPUBBYTES(a)),
                ARG_TO_UCHAR_BUFFER_LEN(info, 3, "ctx", crypto_aead_aes256gcm_statebytes)>>)
        m == Arg(info, 0).b
        c0 == sodium_memzero(NEW_BUFFER_AND_PTR(ABYTES(a) + Len(m), junk),
                             ABYTES(a) + Len(m))
        rc == IF PrimFails(a, fault) THEN -1 ELSE 0
        c == IF rc = 0
             THEN Write(c0, aead_encrypt(a, StateKey(Arg(info, 3).b), Arg(info, 2).b, m,
                                         PtrOrNull(Arg(info, 1))))
             ELSE c0
    IN  IF e # NoError THEN Thrown(e)
        ELSE IF rc = 0 THEN Returned(Buffer(c), rc, c0)
        ELSE Returned(Undefined, rc, c0)

\* crypto_aead_aes256gcm_encrypt_afternm zeroing m_size bytes only, the
\* room for the tag left as allocated
Mutant_encrypt_afternm_zeroes_m_size(info, fault, junk) ==
    LET a == "aes256gcm"
        e == FirstError(<<
                ARGS(info, 4),
                ARG_TO_UCHAR_BUFFER(info, 0, "m"),
                ARG_TO_UCHAR_BUFFER_LEN(info, 2, "npub", NPUBBYTES(a)),
                ARG_TO_UCHAR_BUFFER_LEN(info, 3, "ctx", crypto_aead_aes256gcm_statebytes)>>)
        m == Arg(info, 0).b
        c0 == sodium_memzero(NEW_BUFFER_AND_PTR(ABYTES(a) + Len(m), junk), Len(m))
        rc == IF PrimFails(a, fault) THEN -1 ELSE 0
        c == IF rc = 0
             THEN Write(c0, aead_encrypt(a, StateKey(Arg(info, 3).b), Arg(info, 2).b, m,
                                         PtrOrNull(Arg(info, 1))))
             ELSE c0
    IN  IF e # NoError THEN Thrown(e)
        ELSE IF rc = 0 THEN Returned(Buffer(c), rc, c0)
        ELSE Returned(Undefined, rc, c0)

\* crypto_aead_aes256gcm_encrypt_afternm allocating m_size bytes, without
\* room for the tag
Mutant_encrypt_afternm_no_room_for_tag(info, fault, junk) ==
    LET a == "aes256gcm"
        e == FirstError(<<
                ARGS(info, 4),
                ARG_TO_UCHAR_BUFFER(info, 0, "m"),
                ARG_TO_UCHAR_BUFFER_LEN(info, 2, "npub", NPUBBYTES(a)),
                ARG_TO_UCHAR_BUFFER_LEN(info, 3, "ctx", crypto_aead_aes256gcm_statebytes)>>)
        m == Arg(info, 0).b
        c0 == sodium_memzero(NEW_BUFFER_AND_PTR(Len(m), junk), Len(m))
        rc == IF PrimFails(a, fault) THEN -1 ELSE 0
        c == IF rc = 0
             THEN Write(c0, aead_encrypt(a, StateKey(Arg(info, 3).b), Arg(info, 2).b, m,
                                         PtrOrNull(Arg(info, 1))))
             ELSE c0
    IN  IF e # NoError THEN Thrown(e)
        ELSE IF rc = 0 THEN Returned(Buffer(c), rc, c0)
        ELSE Returned(Undefined, rc, c0)

\* crypto_aead_aes256gcm_encrypt_afternm taking a state of any length
Mutant_encrypt_afternm_any_ctx_length(info, fault, junk) ==
    LET a == "aes256gcm"
        e == FirstError(<<
                ARGS(info, 4),
                ARG_TO_UCHAR_BUFFER(info, 0, "m"),
                ARG_TO_UCHAR_BUFFER_LEN(info, 2, "npub", NPUBBYTES(a)),
                ARG_TO_UCHAR_BUFFER(info, 3, "ctx")>>)
        m == Arg(info, 0).b
        c0 == sodium_memzero(NEW_BUFFER_AND_PTR(ABYTES(a) + Len(m), junk),
                             ABYTES(a) + Len(m))
        rc == IF PrimFails(a, fault) THEN -1 ELSE 0
        c == IF rc = 0
             THEN Write(c0, aead_encrypt(a, StateKey(Arg(info, 3).b), Arg(info, 2).b, m,
                                         PtrOrNull(Arg(info, 1))))
             ELSE c0
    IN  IF e # NoError THEN Thrown(e)
        ELSE IF rc = 0 THEN Returned(Buffer(c), rc, c0)
        ELSE Returned(Undefined, rc, c0)

crypto_aead_aes256gcm_encrypt_afternm(info, fault, junk) ==
    LET a == "aes256gcm"
        e == FirstError(<<
                ARGS(info, 4),
                ARG_TO_UCHAR_BUFFER(info, 0, "m"),
                ARG_TO_UCHAR_BUFFER_OR_NULL(info, 1, "ad"),
                ARG_TO_UCHAR_BUFFER_LEN(info, 2, "npub", NPUBBYTES(a)),
                ARG_TO_UCHAR_BUFFER_LEN(info, 3, "ctx", crypto_aead_aes256gcm_statebytes)>>)
        m == Arg(info, 0).b
        m_size == Len(m)
        ad == PtrOrNull(Arg(info, 1))
        npub == Arg(info, 2).b
        ctx == Arg(info, 3).b
        c0 == sodium_memzero(NEW_BUFFER_AND_PTR(ABYTES(a) + m_size, junk),
                             ABYTES(a) + m_size)
        rc == IF PrimFails(a, fault) THEN -1 ELSE 0
        c == IF rc = 0 THEN Write(c0, aead_encrypt(a, StateKey(ctx), npub, m, ad)) ELSE c0
    IN  IF e # NoError THEN Thrown(e)
        ELSE IF rc = 0 THEN Returned(Buffer(c), rc, c0)
        ELSE Returned(Undefined, rc, c0)

\* crypto_aead_aes256gcm_decrypt_afternm passing no additional data on
Mutant_decrypt_afternm_drops_ad(info, junk) ==
    LET a == "aes256gcm"
        e == FirstError(<<
                ARGS(info, 4),
                ARG_TO_UCHAR_BUFFER(info, 0, "c"),
                IF Len(Arg(info, 0).b) < ABYTES(a) THEN InvalidLength("cipher text")
                                                    ELSE NoError,
                ARG_TO_UCHAR_BUFFER_LEN(info, 2, "npub", NPUBBYTES(a)),
                ARG_TO_UCHAR_BUFFER_LEN(info, 3, "ctx", crypto_aead_aes256gcm_statebytes)>>)
        c == Arg(info, 0).b
        m0 == NEW_BUFFER_AND_PTR(Len(c) - ABYTES(a), junk)
        r == aead_decrypt(a, StateKey(Arg(info, 3).b), Arg(info, 2).b, c, <<>>)
        rc == IF PrimFails(a, FALSE) THEN -1 ELSE r.rc
        m == IF PrimFails(a, FALSE) THEN m0 ELSE Write(m0, r.m)
    IN  IF e # NoError THEN Thrown(e)
        ELSE IF rc = 0 THEN Returned(Buffer(m), rc, m0)
        ELSE Returned(Undefined, rc, m0)

\* crypto_aead_aes256gcm_decrypt_afternm checking the cipher text length
\* after the nonce and the state
Mutant_decrypt_afternm_checks_c_last(info, junk) ==
    LET a == "aes256gcm"
        e == FirstError(<<
                ARGS(info, 4),
                ARG_TO_UCHAR_BUFFER(info, 0, "c"),
                ARG_TO_UCHAR_BUFFER_LEN(info, 2, "npub", NPUBBYTES(a)),
                ARG_TO_UCHAR_BUFFER_LEN(info, 3, "ctx", crypto_aead_aes256gcm_statebytes),
                IF Len(Arg(info, 0).b) < ABYTES(a) THEN InvalidLength("cipher text")
                                                    ELSE NoError>>)
        c == Arg(info, 0).b
        m0 == NEW_BUFFER_AND_PTR(Len(c) - ABYTES(a), junk)
        r == aead_decrypt(a, StateKey(Arg(info, 3).b), Arg(info, 2).b, c,
                          PtrOrNull(Arg(info, 1)))
        rc == IF PrimFails(a, FALSE) THEN -1 ELSE r.rc
        m == IF PrimFails(a, FALSE) THEN m0 ELSE Write(m0, r.m)
    IN  IF e # NoError THEN Thrown(e)
        ELSE IF rc = 0 THEN Returned(Buffer(m), rc, m0)
        ELSE Returned(Undefined, rc, m0)

crypto_aead_aes256gcm_decrypt_afternm(info, junk) ==
    LET a == "aes256gcm"
        e == FirstError(<<
                ARGS(info, 4),
                ARG_TO_UCHAR_BUFFER(info, 0, "c"),
                IF Len(Arg(info, 0).b) < ABYTES(a) THEN InvalidLength("cipher text")
                                                    ELSE NoError,
                ARG_TO_UCHAR_BUFFER_OR_NULL(info, 1, "ad"),
                ARG_TO_UCHAR_BUFFER_LEN(info, 2, "npub", NPUBBYTES(a)),
                ARG_TO_UCHAR_BUFFER_LEN(info, 3, "ctx", crypto_aead_aes256gcm_statebytes)>>)
        c == Arg(info, 0).b
        c_size == Len(c)
        ad == PtrOrNull(Arg(info, 1))
        npub == Arg(info, 2).b
        ctx == Arg(info, 3).b
        m0 == NEW_BUFFER_AND_PTR(c_size - ABYTES(a), junk)
        r == aead_decrypt(a, StateKey(ctx), npub, c, ad)
        rc == IF PrimFails(a, FALSE) THEN -1 ELSE r.rc
        m == IF PrimFails(a, FALSE) THEN m0 ELSE Write(m0, r.m)
    IN  IF e # NoError THEN Thrown(e)
        ELSE IF rc = 0 THEN Returned(Buffer(m), rc, m0)
        ELSE Returned(Undefined, rc, m0)

\* crypto_aead_aes256gcm_encrypt_detached_afternm setting cipherText to the
\* tag and mac to the cipher text
Mutant_encrypt_detached_afternm_swaps(info, fault, junk) ==
    LET a == "aes256gcm"
        e == FirstError(<<
                ARGS(info, 4),
                ARG_TO_UCHAR_BUFFER(info, 0, "m"),
                ARG_TO_UCHAR_BUFFER_LEN(info, 2, "npub", NPUBBYTES(a)),
                ARG_TO_UCHAR_BUFFER_LEN(info, 3, "ctx", crypto_aead_aes256gcm_statebytes)>>)
        m == Arg(info, 0).b
        c0 == NEW_BUFFER_AND_PTR(Len(m), junk)
        mac0 == NEW_BUFFER_AND_PTR(ABYTES(a), junk)
        rc == IF PrimFails(a, fault) THEN -1 ELSE 0
        r == aead_encrypt_detached(a, StateKey(Arg(info, 3).b), Arg(info, 2).b, m,
                                   PtrOrNull(Arg(info, 1)))
    IN  IF e # NoError THEN Thrown(e)
        ELSE IF rc = 0
             THEN Returned(Object(Write(mac0, r.mac), Write(c0, r.c)), rc, c0)
        ELSE Returned(Undefined, rc, c0)

crypto_aead_aes256gcm_encrypt_detached_afternm(info, fault, junk) ==
    LET a == "aes256gcm"
        e == FirstError(<<
                ARGS(info, 4),
                ARG_TO_UCHAR_BUFFER(info, 0, "m"),
                ARG_TO_UCHAR_BUFFER_OR_NULL(info, 1, "ad"),
                ARG_TO_UCHAR_BUFFER_LEN(info, 2, "npub", NPUBBYTES(a)),
                ARG_TO_UCHAR_BUFFER_LEN(info, 3, "ctx", crypto_aead_aes256gcm_statebytes)>>)
        m == Arg(info, 0).b
        m_size == Len(m)
        ad == PtrOrNull(Arg(info, 1))
        npub == Arg(info, 2).b
        ctx == Arg(info, 3).b
        c0 == NEW_BUFFER_AND_PTR(m_size, junk)
        mac0 == NEW_BUFFER_AND_PTR(ABYTES(a), junk)
        rc == IF PrimFails(a, fault) THEN -1 ELSE 0
        r == aead_encrypt_detached(a, StateKey(ctx), npub, m, ad)
    IN  IF e # NoError THEN Thrown(e)
        ELSE IF rc = 0
             THEN Returned(Object(Write(c0, r.c), Write(mac0, r.mac)), rc, c0)
        ELSE Returned(Undefined, rc, c0)

\* crypto_aead_aes256gcm_decrypt_detached_afternm returning its buffer
\* whatever the primitive reported
Mutant_decrypt_detached_afternm_returns_m(info, junk) ==
    LET a == "aes256gcm"
        e == FirstError(<<
                ARGS(info, 4),
                ARG_TO_UCHAR_BUFFER(info, 0, "c"),
                ARG_TO_UCHAR_BUFFER_LEN(info, 1, "mac", ABYTES(a)),
                ARG_TO_UCHAR_BUFFER_LEN(info, 3, "npub", NPUBBYTES(a)),
                ARG_TO_UCHAR_BUFFER_LEN(info, 4, "ctx", crypto_aead_aes256gcm_statebytes)>>)
        c == Arg(info, 0).b
        m0 == NEW_BUFFER_AND_PTR(Len(c), junk)
        r == aead_decrypt_detached(a, StateKey(Arg(info, 4).b), Arg(info, 3).b, c,
                                   Arg(info, 1).b, PtrOrNull(Arg(info, 2)))
        rc == IF PrimFails(a, FALSE) THEN -1 ELSE r.rc
        m == IF PrimFails(a, FALSE) THEN m0 ELSE Write(m0, r.m)
    IN  IF e # NoError THEN Thrown(e)
        ELSE Returned(Buffer(m), rc, m0)

crypto_aead_aes256gcm_decrypt_detached_afternm(info, junk) ==
    LET a == "aes256gcm"
        e == FirstError(<<
                ARGS(info, 4),
                ARG_TO_UCHAR_BUFFER(info, 0, "c"),
                ARG_TO_UCHAR_BUFFER_LEN(info, 1, "mac", ABYTES(a)),
                ARG_TO_UCHAR_BUFFER_OR_NULL(info, 2, "ad"),
                ARG_TO_UCHAR_BUFFER_LEN(info, 3, "npub", NPUBBYTES(a)),
                ARG_TO_UCHAR_BUFFER_LEN(info, 4, "ctx", crypto_aead_aes256gcm_statebytes)>>)
        c == Arg(info, 0).b
        c_size == Len(c)
        mac == Arg(info, 1).b
        ad == PtrOrNull(Arg(info, 2))
        npub == Arg(info, 3).b
        ctx == Arg(info, 4).b
        m0 == NEW_BUFFER_AND_PTR(c_size, junk)
        r == aead_decrypt_detached(a, StateKey(ctx), npub, c, mac, ad)
        rc == IF PrimFails(a, FALSE) THEN -1 ELSE r.rc
        m == IF PrimFails(a, FALSE) THEN m0 ELSE Write(m0, r.m)
    IN  IF e # NoError THEN Thrown(e)
        ELSE IF rc = 0 THEN Returned(Buffer(m), rc, m0)
        ELSE Returned(Undefined, rc, m0)

(***************************************************************************)
(* The key-based handlers CRYPTO_AEAD_DEF(ALGO) and                        *)
(* CRYPTO_AEAD_DETACHED_DEF(ALGO) expand to (crypto_aead.h), one family    *)
(* per algorithm: the same validation, with a key of KEYBYTES in place of  *)
(* the state.                                                              *)
(***************************************************************************)
crypto_aead_encrypt(a, info, fault, junk) ==
    LET e == FirstError(<<
                ARGS(info, 4),
                ARG_TO_UCHAR_BUFFER(info, 0, "m"),
                ARG_TO_UCHAR_BUFFER_OR_NULL(info, 1, "ad"),
                ARG_TO_UCHAR_BUFFER_LEN(info, 2, "npub", NPUBBYTES(a)),
                ARG_TO_UCHAR_BUFFER_LEN(info, 3, "k", KEYBYTES(a))>>)
        m == Arg(info, 0).b
        m_size == Len(m)
        ad == PtrOrNull(Arg(info, 1))
        npub == Arg(info, 2).b
        k == Arg(info, 3).b
        c0 == sodium_memzero(NEW_BUFFER_AND_PTR(ABYTES(a) + m_size, junk),
                             ABYTES(a) + m_size)
        rc == IF PrimFails(a, fault) THEN -1 ELSE 0
        c == IF rc = 0 THEN Write(c0, aead_encrypt(a, k, npub, m, ad)) ELSE c0
    IN  IF e # NoError THEN Thrown(e)
        ELSE IF rc = 0 THEN Returned(Buffer(c), rc, c0)
        ELSE Returned(Undefined, rc, c0)

crypto_aead_decrypt(a, info, junk) ==
    LET e == FirstError(<<
                ARGS(info, 4),
                ARG_TO_UCHAR_BUFFER(info, 0, "c"),
                IF Len(Arg(info, 0).b) < ABYTES(a) THEN InvalidLength("cipher text")
                                                    ELSE NoError,
                ARG_TO_UCHAR_BUFFER_OR_NULL(info, 1, "ad"),
                ARG_TO_UCHAR_BUFFER_LEN(info, 2, "npub", NPUBBYTES(a)),
                ARG_TO_UCHAR_BUFFER_LEN(info, 3, "k", KEYBYTES(a))>>)
        c == Arg(info, 0).b
        c_size == Len(c)
        ad == PtrOrNull(Arg(info, 1))
        npub == Arg(info, 2).b
        k == Arg(info, 3).b
        m0 == NEW_BUFFER_AND_PTR(c_size - ABYTES(a), junk)
        r == aead_decrypt(a, k, npub, c, ad)
        rc == IF PrimFails(a, FALSE) THEN -1 ELSE r.rc
        m == IF PrimFails(a, FALSE) THEN m0 ELSE Write(m0, r.m)
    IN  IF e # NoError THEN Thrown(e)
        ELSE IF rc = 0 THEN Returned(Buffer(m), rc, m0)
        ELSE Returned(Undefined, rc, m0)

crypto_aead_encrypt_detached(a, info, fault, junk) ==
    LET e == FirstError(<<
                ARGS(info, 4),
                ARG_TO_UCHAR_BUFFER(info, 0, "m"),
                ARG_TO_UCHAR_BUFFER_OR_NULL(info, 1, "ad"),
                ARG_TO_UCHAR_BUFFER_LEN(info, 2, "npub", NPUBBYTES(a)),
                ARG_TO_UCHAR_BUFFER_LEN(info, 3, "k", KEYBYTES(a))>>)
        m == Arg(info, 0).b
        m_size == Len(m)
        ad == PtrOrNull(Arg(info, 1))
        npub == Arg(info, 2).b
        k == Arg(info, 3).b
        c0 == NEW_BUFFER_AND_PTR(m_size, junk)
        mac0 == NEW_BUFFER_AND_PTR(ABYTES(a), junk)
        rc == IF PrimFails(a, fault) THEN -1 ELSE 0
        r == aead_encrypt_detached(a, k, npub, m, ad)
    IN  IF e # NoError THEN Thrown(e)
        ELSE IF rc = 0
             THEN Returned(Object(Write(c0, r.c), Write(mac0, r.mac)), rc, c0)
        ELSE Returned(Undefined, rc, c0)

crypto_aead_decrypt_detached(a, info, junk) ==
    LET e == FirstError(<<
                ARGS(info, 4),
                ARG_TO_UCHAR_BUFFER(info, 0, "c"),
                ARG_TO_UCHAR_BUFFER_LEN(info, 1, "mac", ABYTES(a)),
                ARG_TO_UCHAR_BUFFER_OR_NULL(info, 2, "ad"),
                ARG_TO_UCHAR_BUFFER_LEN(info, 3, "npub", NPUBBYTES(a)),
                ARG_TO_UCHAR_BUFFER_LEN(info, 4, "k", KEYBYTES(a))>>)
        c == Arg(info, 0).b
        c_size == Len(c)
        mac == Arg(info, 1).b
        ad == PtrOrNull(Arg(info, 2))
        npub == Arg(info, 3).b
        k == Arg(info, 4).b
        m0 == NEW_BUFFER_AND_PTR(c_size, junk)
        r == aead_decrypt_detached(a, k, npub, c, mac, ad)
        rc == IF PrimFails(a, FALSE) THEN -1 ELSE r.rc
        m == IF PrimFails(a, FALSE) THEN m0 ELSE Write(m0, r.m)
    IN  IF e # NoError THEN Thrown(e)
        ELSE IF rc = 0 THEN Returned(Buffer(m), rc, m0)
        ELSE Returned(Undefined, rc, m0)

(***************************************************************************)
(* The caller: the buffers it holds and the arguments it passes.           *)
(***************************************************************************)
\* randombytes_buf(key), randombytes_buf(nonce): some key and nonce, and
\* another of each
key == [i \in 1..KEYBYTES("aes256gcm") |-> (7 * i + 3) % 256]
otherKey == [i \in 1..KEYBYTES("aes256gcm") |-> (11 * i + 5) % 256]
nonce(a) == [i \in 1..NPUBBYTES(a) |-> (17 * i) % 256]
otherNonce(a) == [i \in 1..NPUBBYTES(a) |-> (19 * i + 1) % 256]

Msgs == {[i \in 1..n |-> (200 + 31 * i) % 256] : n \in 0..MaxMsgLen}
Ads == {Null} \cup {Buffer([i \in 1..n |-> (9 * i) % 256]) : n \in 0..MaxAdLen}
JunkBytes == {0, 170}

Shorter(b) == SubSeq(b, 1, Len(b) - 1)
Longer(b) == Append(b, 0)
\* one bit of the last byte flipped
Flip(b) == IF b = <<>> THEN b
           ELSE [b EXCEPT ![Len(b)] = IF @ % 2 = 0 THEN @ + 1 ELSE @ - 1]

EncNpubPool(a) == {Buffer(nonce(a)), Buffer(Shorter(nonce(a))), Buffer(Longer(nonce(a)))}
NpubPool(a) == EncNpubPool(a) \cup {Buffer(otherNonce(a))}
EncKeyPool == {Buffer(key), Buffer(Shorter(key)), Buffer(Longer(key))}
KeyPool == EncKeyPool \cup {Buffer(otherKey)}
\* the state the caller built, buffers of a wrong size, and a buffer of
\* statebytes bytes that no beforenm of this process returned
CtxPool == {state, Buffer(Shorter(derive_context(key))), Buffer(Longer(derive_context(key))),
            Buffer(derive_context(otherKey))}

NoCall == [fn |-> "none", info |-> <<>>, ret |-> Undefined, err |-> NoError,
           prim |-> 0, rc |-> <<>>, out0 |-> <<>>]
NoHeld == [fn |-> "none", info |-> <<>>, ret |-> Undefined]
Called(fn, info, r) ==
    [fn |-> fn, info |-> info, ret |-> r.ret, err |-> r.err, prim |-> r.prim,
     rc |-> r.rc, out0 |-> r.out0]

\* the cipher text and the tag the caller has: what it kept (a combined
\* buffer split at its last ABYTES, a detached pair joined), or bytes of the
\* right shape that no encrypt produced
HeldCombined ==
    IF held.ret.t = "buffer" THEN held.ret.b
    ELSE IF held.ret.t = "object" THEN held.ret.b \o held.ret.mac
    ELSE Zeros(Len(message) + ABYTES(algo))
HeldCipherText == SubSeq(HeldCombined, 1, Len(HeldCombined) - ABYTES(algo))
HeldMac == SubSeq(HeldCombined, Len(HeldCombined) - ABYTES(algo) + 1, Len(HeldCombined))

CombinedPool ==
    {Buffer(HeldCombined), Buffer(Flip(HeldCombined)),
     Buffer(SubSeq(HeldCombined, 1, ABYTES(algo) - 1)), Buffer(<<>>)}
DetachedPool ==
    {<<Buffer(HeldCipherText), Buffer(HeldMac)>>,
     <<Buffer(Flip(HeldCipherText)), Buffer(HeldMac)>>,
     <<Buffer(HeldCipherText), Buffer(Flip(HeldMac))>>,
     <<Buffer(HeldCipherText), Buffer(Shorter(HeldMac))>>,
     <<Buffer(HeldCipherText), Buffer(Longer(HeldMac))>>,
     <<Buffer(HeldCipherText), Null>>}

\* (message, additionalData, nonce, key|ctx), and the same with the last
\* argument left out or with a message that is no buffer
EncryptInfos(keys) ==
    {<<Buffer(message), additionalData, n, k>> : n \in EncNpubPool(algo), k \in keys}
    \cup {<<Buffer(message), additionalData, Buffer(nonce(algo))>>}
    \cup {<<Null, additionalData, Buffer(nonce(algo)), k>> : k \in keys}

\* (cipherText, additionalData, nonce, key|ctx)
DecryptInfos(keys) ==
    {<<c, additionalData, n, k>> : c \in CombinedPool, n \in NpubPool(algo), k \in keys}
    \cup {<<Buffer(HeldCombined), additionalData, Buffer(nonce(algo))>>}

\* (cipherText, mac, additionalData, nonce, key|ctx), and the four arguments
\* (cipherText, mac, nonce, key|ctx) of the documented call
DecryptDetachedInfos(keys) ==
    {<<p[1], p[2], additionalData, n, k>> :
        p \in DetachedPool, n \in NpubPool(algo), k \in keys}
    \cup {<<Buffer(HeldCipherText), Buffer(HeldMac), Buffer(nonce(algo)), k>> : k \in keys}

Init ==
    /\ available \in BOOLEAN
    /\ algo \in Algos
    /\ message \in Msgs
    /\ additionalData \in Ads
    /\ state = Undefined
    /\ held = NoHeld
    /\ last = NoCall

Idle == last = NoCall

IsAvailable ==
    /\ Idle
    /\ last' = Called("crypto_aead_aes256gcm_is_available", <<>>,
                      crypto_aead_aes256gcm_is_available)
    /\ UNCHANGED <<available, algo, message, additionalData, state, held>>

Beforenm ==
    /\ Idle
    /\ algo = "aes256gcm"
    /\ \E info \in {<<k>> : k \in KeyPool} \cup {<<>>},
          fault \in BOOLEAN, junk \in JunkBytes :
          last' = Called("crypto_aead_aes256gcm_beforenm", info,
                         crypto_aead_aes256gcm_beforenm(info, fault, junk))
    /\ UNCHANGED <<available, algo, message, additionalData, state, held>>

EncryptAfternm ==
    /\ Idle
    /\ algo = "aes256gcm"
    /\ \E info \in EncryptInfos(CtxPool), fault \in BOOLEAN, junk \in JunkBytes :
          LET r == crypto_aead_aes256gcm_encrypt_afternm(info, fault, junk)
          IN  /\ last' = Called("crypto_aead_aes256gcm_encrypt_afternm", info, r)
              \* the caller's state is the buffer the call was given
              /\ state' = IF Arg(info, 3) = state THEN ctx_after(state, r)
                                                 ELSE state
    /\ UNCHANGED <<available, algo, message, additionalData, held>>

DecryptAfternm ==
    /\ Idle
    /\ algo = "aes256gcm"
    /\ \E info \in DecryptInfos(CtxPool), junk \in JunkBytes :
          LET r == crypto_aead_aes256gcm_decrypt_afternm(info, junk)
          IN  /\ last' = Called("crypto_aead_aes256gcm_decrypt_afternm", info, r)
              \* the caller's state is the buffer the call was given
              /\ state' = IF Arg(info, 3) = state THEN ctx_after(state, r)
                                                 ELSE state
    /\ UNCHANGED <<available, algo, message, additionalData, held>>

EncryptDetachedAfternm ==
    /\ Idle
    /\ algo = "aes256gcm"
    /\ \E info \in EncryptInfos(CtxPool), fault \in BOOLEAN, junk \in JunkBytes :
          LET r == crypto_aead_aes256gcm_encrypt_detached_afternm(info, fault, junk)
          IN  /\ last' = Called("crypto_aead_aes256gcm_encrypt_detached_afternm", info, r)
              \* the caller's state is the buffer the call was given
              /\ state' = IF Arg(info, 3) = state THEN ctx_after(state, r)
                                                 ELSE state
    /\ UNCHANGED <<available, algo, message, additionalData, held>>

DecryptDetachedAfternm ==
    /\ Idle
    /\ algo = "aes256gcm"
    /\ \E info \in DecryptDetachedInfos(CtxPool), junk \in JunkBytes :
          LET r == crypto_aead_aes256gcm_decrypt_detached_afternm(info, junk)
          IN  /\ last' = Called("crypto_aead_aes256gcm_decrypt_detached_afternm", info, r)
              \* the caller's state is the buffer the call was given
              /\ state' = IF Arg(info, 4) = state THEN ctx_after(state, r)
                                                 ELSE state
    /\ UNCHANGED <<available, algo, message, additionalData, held>>

Encrypt ==
    /\ Idle
    /\ \E info \in EncryptInfos(EncKeyPool), fault \in BOOLEAN, junk \in JunkBytes :
          last' = Called("crypto_aead_encrypt", info,
                         crypto_aead_encrypt(algo, info, fault, junk))
    /\ UNCHANGED <<available, algo, message, additionalData, state, held>>

Decrypt ==
    /\ Idle
    /\ \E info \in DecryptInfos(KeyPool), junk \in JunkBytes :
          last' = Called("crypto_aead_decrypt", info,
                         crypto_aead_decrypt(algo, info, junk))
    /\ UNCHANGED <<available, algo, message, additionalData, state, held>>

EncryptDetached ==
    /\ Idle
    /\ \E info \in EncryptInfos(EncKeyPool), fault \in BOOLEAN, junk \in JunkBytes :
          last' = Called("crypto_aead_encrypt_detached", info,
                         crypto_aead_encrypt_detached(algo, info, fault, junk))
    /\ UNCHANGED <<available, algo, message, additionalData, state, held>>

DecryptDetached ==
    /\ Idle
    /\ \E info \in DecryptDetachedInfos(KeyPool), junk \in JunkBytes :
          last' = Called("crypto_aead_decrypt_detached", info,
                         crypto_aead_decrypt_detached(algo, info, junk))
    /\ UNCHANGED <<available, algo, message, additionalData, state, held>>

\* var state = sodium.crypto_aead_aes256gcm_beforenm(key);
KeepState ==
    /\ last.fn = "crypto_aead_aes256gcm_beforenm"
    /\ IsBuffer(last.ret)
    /\ state' = last.ret
    /\ last' = NoCall
    /\ UNCHANGED <<available, algo, message, additionalData, held>>

\* var cipherText = sodium.crypto_aead_..._encrypt...(...);
KeepCipherText ==
    /\ last.fn \in {"crypto_aead_encrypt", "crypto_aead_encrypt_detached",
                    "crypto_aead_aes256gcm_encrypt_afternm",
                    "crypto_aead_aes256gcm_encrypt_detached_afternm"}
    /\ last.ret.t \in {"buffer", "object"}
    /\ held' = [fn |-> last.fn, info |-> last.info, ret |-> last.ret]
    /\ last' = NoCall
    /\ UNCHANGED <<available, algo, message, additionalData, state>>

\* the result is looked at and dropped
Drop ==
    /\ ~Idle
    /\ last' = NoCall
    /\ UNCHANGED <<available, algo, message, additionalData, state, held>>

Next ==
    \/ IsAvailable
    \/ Beforenm
    \/ EncryptAfternm
    \/ DecryptAfternm
    \/ EncryptDetachedAfternm
    \/ DecryptDetachedAfternm
    \/ Encrypt
    \/ Decrypt
    \/ EncryptDetached
    \/ DecryptDetached
    \/ KeepState
    \/ KeepCipherText
    \/ Drop

Spec == Init /\ [][Next]_vars

(***************************************************************************)
(* Properties.                                                             *)
(***************************************************************************)
CombinedEncryptFns == {"crypto_aead_encrypt", "crypto_aead_aes256gcm_encrypt_afternm"}
DetachedEncryptFns == {"crypto_aead_encrypt_detached",
                       "crypto_aead_aes256gcm_encrypt_detached_afternm"}
CombinedDecryptFns == {"crypto_aead_decrypt", "crypto_aead_aes256gcm_decrypt_afternm"}
DetachedDecryptFns == {"crypto_aead_decrypt_detached",
                       "crypto_aead_aes256gcm_decrypt_detached_afternm"}
AfternmFns == {"crypto_aead_aes256gcm_encrypt_afternm",
               "crypto_aead_aes256gcm_decrypt_afternm",
               "crypto_aead_aes256gcm_encrypt_detached_afternm",
               "crypto_aead_aes256gcm_decrypt_detached_afternm"}

DecryptOf(fn) ==
    CASE fn = "crypto_aead_encrypt" -> "crypto_aead_decrypt"
      [] fn = "crypto_aead_encrypt_detached" -> "crypto_aead_decrypt_detached"
      [] fn = "crypto_aead_aes256gcm_encrypt_afternm" ->
            "crypto_aead_aes256gcm_decrypt_afternm"
      [] fn = "crypto_aead_aes256gcm_encrypt_detached_afternm" ->
            "crypto_aead_aes256gcm_decrypt_detached_afternm"
      [] OTHER -> "none"

\* the last call decrypts what the held encrypt returned, in the same mode
\* and by the same path, with that encrypt's additional data, nonce and
\* key or state
RoundTripCall ==
    /\ held.fn # "none"
    /\ last.fn = DecryptOf(held.fn)
    /\ last.info =
          IF held.fn \in CombinedEncryptFns
          THEN <<held.ret, held.info[2], held.info[3], held.info[4]>>
          ELSE <<Buffer(held.ret.b), Buffer(held.ret.mac),
                 held.info[2], held.info[3], held.info[4]>>

\* C1: decrypting the output of encrypt with the same associated data, nonce
\* and key or state returns exactly the original message, in every mode and
\* for every algorithm, message and associated data.
C1_RoundTrip == RoundTripCall => last.ret = held.info[1]

\* C1 witness: a detached, state-based round trip of the empty message with
\* no associated data.
C1_Witness ==
    /\ RoundTripCall
    /\ last.fn = "crypto_aead_aes256gcm_decrypt_detached_afternm"
    /\ message = <<>>
    /\ additionalData = Null
    /\ last.ret = Buffer(<<>>)

\* C2: when the primitive reports failure during a combined or detached
\* decrypt, the call returns undefined: no buffer, so no plain text, and not
\* the empty buffer of a successfully decrypted empty message.
C2_AuthFailureReturnsNoBuffer ==
    (last.fn \in CombinedDecryptFns \cup DetachedDecryptFns /\ last.rc = <<-1>>)
        => /\ last.ret = Undefined
           /\ ~IsBuffer(last.ret)
           /\ last.ret # Buffer(<<>>)

\* C2 witness: on a host with support, a cipher text of the empty message
\* with a flipped tag bit is refused.
C2_Witness ==
    /\ last.fn \in CombinedDecryptFns \cup DetachedDecryptFns
    /\ available
    /\ last.rc = <<-1>>
    /\ held.fn # "none"
    /\ message = <<>>
    /\ last.info[1] \in {Buffer(Flip(HeldCombined)), Buffer(HeldCipherText)}
    /\ last.ret = Undefined

\* what each function requires of the lengths of its arguments
LengthsExact(fn, info) ==
    CASE fn \in {"crypto_aead_encrypt", "crypto_aead_encrypt_detached",
                 "crypto_aead_decrypt"} ->
            /\ Len(Arg(info, 2).b) = NPUBBYTES(algo)
            /\ Len(Arg(info, 3).b) = KEYBYTES(algo)
      [] fn = "crypto_aead_decrypt_detached" ->
            /\ Len(Arg(info, 1).b) = ABYTES(algo)
            /\ Len(Arg(info, 3).b) = NPUBBYTES(algo)
            /\ Len(Arg(info, 4).b) = KEYBYTES(algo)
      [] fn \in {"crypto_aead_aes256gcm_encrypt_afternm",
                 "crypto_aead_aes256gcm_encrypt_detached_afternm",
                 "crypto_aead_aes256gcm_decrypt_afternm"} ->
            /\ Len(Arg(info, 2).b) = NPUBBYTES("aes256gcm")
            /\ Len(Arg(info, 3).b) = crypto_aead_aes256gcm_statebytes
      [] fn = "crypto_aead_aes256gcm_decrypt_detached_afternm" ->
            /\ Len(Arg(info, 1).b) = ABYTES("aes256gcm")
            /\ Len(Arg(info, 3).b) = NPUBBYTES("aes256gcm")
            /\ Len(Arg(info, 4).b) = crypto_aead_aes256gcm_statebytes
      [] fn = "crypto_aead_aes256gcm_beforenm" ->
            Len(Arg(info, 0).b) = KEYBYTES("aes256gcm")
      [] OTHER -> TRUE

\* C3: a call whose nonce, key, state or detached tag has not exactly the
\* required length fails, and the primitive is not invoked in that call.
C3_LengthChecksBeforePrimitive ==
    (last.fn # "none" /\ ~LengthsExact(last.fn, last.info))
        => /\ last.prim = 0
           /\ last.err # NoError
           /\ last.ret = Null

\* C3 witness: a detached decrypt with a tag one byte too long is refused
\* before the primitive.
C3_Witness ==
    /\ last.fn = "crypto_aead_aes256gcm_decrypt_detached_afternm"
    /\ Len(last.info) = 5
    /\ Len(last.info[2].b) = ABYTES("aes256gcm") + 1
    /\ last.err = InvalidLength("mac")
    /\ last.prim = 0

\* C4: a combined decrypt of a cipher text shorter than the tag fails with
\* the cipher text length error, the primitive not invoked, also when the
\* nonce or the key or state has a wrong length too.
C4_CipherTextLengthFirst ==
    (/\ last.fn \in CombinedDecryptFns
     /\ Len(last.info) >= 4
     /\ IsBuffer(last.info[1])
     /\ Len(last.info[1].b) < ABYTES(algo))
        => /\ last.err = InvalidLength("cipher text")
           /\ last.prim = 0

\* C4 witness: a cipher text of ABYTES - 1 bytes, with a nonce and a state
\* of wrong lengths.
C4_Witness ==
    /\ last.fn = "crypto_aead_aes256gcm_decrypt_afternm"
    /\ Len(last.info) = 4
    /\ Len(last.info[1].b) = ABYTES("aes256gcm") - 1
    /\ Len(last.info[3].b) # NPUBBYTES("aes256gcm")
    /\ IsBuffer(last.info[4])
    /\ Len(last.info[4].b) # crypto_aead_aes256gcm_statebytes
    /\ last.err = InvalidLength("cipher text")

\* the state beforenm returns for a key
CtxOf(k) == crypto_aead_aes256gcm_beforenm(<<k>>, FALSE, 0).ret

\* a key-based and a state-based call on the same message, additional data
\* and nonce, the state built by beforenm from the key
KeyAndCtx(kinfo, cinfo) ==
    /\ kinfo[1] = cinfo[1]
    /\ kinfo[2] = cinfo[2]
    /\ kinfo[3] = cinfo[3]
    /\ cinfo[4] = CtxOf(kinfo[4])

\* C5: for the same message, associated data, nonce and key, the key-based
\* encrypt and the encrypt with the state beforenm built from that key return
\* the same bytes, and each path's decrypt returns the message from the
\* other path's output.
C5_ContextEquivalence ==
    /\ (/\ held.fn = "crypto_aead_encrypt"
        /\ last.fn = "crypto_aead_aes256gcm_encrypt_afternm"
        /\ last.rc = <<0>>
        /\ KeyAndCtx(held.info, last.info)) => last.ret = held.ret
    /\ (/\ held.fn = "crypto_aead_aes256gcm_encrypt_afternm"
        /\ last.fn = "crypto_aead_encrypt"
        /\ last.rc = <<0>>
        /\ KeyAndCtx(last.info, held.info)) => last.ret = held.ret
    /\ (/\ held.fn = "crypto_aead_encrypt_detached"
        /\ last.fn = "crypto_aead_aes256gcm_encrypt_detached_afternm"
        /\ last.rc = <<0>>
        /\ KeyAndCtx(held.info, last.info)) => last.ret = held.ret
    /\ (/\ held.fn = "crypto_aead_aes256gcm_encrypt_detached_afternm"
        /\ last.fn = "crypto_aead_encrypt_detached"
        /\ last.rc = <<0>>
        /\ KeyAndCtx(last.info, held.info)) => last.ret = held.ret
    /\ (/\ held.fn = "crypto_aead_encrypt"
        /\ algo = "aes256gcm"
        /\ last.fn = "crypto_aead_aes256gcm_decrypt_afternm"
        /\ last.info = <<held.ret, held.info[2], held.info[3], CtxOf(held.info[4])>>)
            => last.ret = held.info[1]
    /\ (/\ held.fn = "crypto_aead_aes256gcm_encrypt_afternm"
        /\ last.fn = "crypto_aead_decrypt"
        /\ Len(last.info) = 4
        /\ last.info[1] = held.ret
        /\ last.info[2] = held.info[2]
        /\ last.info[3] = held.info[3]
        /\ CtxOf(last.info[4]) = held.info[4])
            => last.ret = held.info[1]

\* C5 witness: the state-based encrypt has returned what the key-based
\* encrypt of the same two-byte message returned.
C5_Witness ==
    /\ held.fn = "crypto_aead_encrypt"
    /\ last.fn = "crypto_aead_aes256gcm_encrypt_afternm"
    /\ last.rc = <<0>>
    /\ KeyAndCtx(held.info, last.info)
    /\ Len(message) = 2
    /\ additionalData # Null
    /\ last.ret = held.ret

\* C6: the combined encrypt output is the detached encrypt's cipher text
\* followed by its tag, for the same arguments by the same path, so the tag
\* is the last ABYTES bytes of the combined buffer.
C6_DetachedCombinedEquivalence ==
    \A pair \in {<<"crypto_aead_encrypt", "crypto_aead_encrypt_detached">>,
                 <<"crypto_aead_aes256gcm_encrypt_afternm",
                   "crypto_aead_aes256gcm_encrypt_detached_afternm">>} :
        /\ (/\ held.fn = pair[1]
            /\ last.fn = pair[2]
            /\ last.rc = <<0>>
            /\ last.info = held.info)
               => /\ held.ret.b = last.ret.b \o last.ret.mac
                  /\ last.ret.mac = SubSeq(held.ret.b, Len(held.ret.b) - ABYTES(algo) + 1,
                                           Len(held.ret.b))
                  /\ Len(last.ret.mac) = ABYTES(algo)
        /\ (/\ held.fn = pair[2]
            /\ last.fn = pair[1]
            /\ last.rc = <<0>>
            /\ last.info = held.info)
               => /\ last.ret.b = held.ret.b \o held.ret.mac
                  /\ held.ret.mac = SubSeq(last.ret.b, Len(last.ret.b) - ABYTES(algo) + 1,
                                           Len(last.ret.b))
                  /\ Len(held.ret.mac) = ABYTES(algo)

\* C6 witness: the detached state-based encrypt has returned, after the
\* combined one of the same arguments.
C6_Witness ==
    /\ held.fn = "crypto_aead_aes256gcm_encrypt_afternm"
    /\ last.fn = "crypto_aead_aes256gcm_encrypt_detached_afternm"
    /\ last.rc = <<0>>
    /\ last.info = held.info
    /\ Len(message) = 2
    /\ held.ret.b = last.ret.b \o last.ret.mac

\* a call whose arguments have the shape its function asks for
WellFormed(fn, info) ==
    /\ LengthsExact(fn, info)
    /\ IsBuffer(Arg(info, 0))
    /\ fn \in CombinedDecryptFns => Len(Arg(info, 0).b) >= ABYTES(algo)

CipherFns ==
    CombinedEncryptFns \cup DetachedEncryptFns \cup CombinedDecryptFns
        \cup DetachedDecryptFns \cup {"crypto_aead_aes256gcm_beforenm"}

C8_OutputLengths ==
    last.rc = <<0>> =>
        /\ last.fn \in CombinedEncryptFns =>
              /\ IsBuffer(last.ret)
              /\ Len(last.ret.b) = Len(last.info[1].b) + ABYTES(algo)
        /\ last.fn \in CombinedDecryptFns =>
              /\ IsBuffer(last.ret)
              /\ Len(last.ret.b) = Len(last.info[1].b) - ABYTES(algo)
        /\ last.fn \in DetachedEncryptFns =>
              /\ last.ret.t = "object"
              /\ Len(last.ret.b) = Len(last.info[1].b)
              /\ Len(last.ret.mac) = ABYTES(algo)
        /\ last.fn \in DetachedDecryptFns =>
              /\ IsBuffer(last.ret)
              /\ Len(last.ret.b) = Len(last.info[1].b)

\* C8 witness: a combined state-based encrypt of the empty message has
\* returned ABYTES bytes.
C8_Witness ==
    /\ last.fn = "crypto_aead_aes256gcm_encrypt_afternm"
    /\ last.rc = <<0>>
    /\ message = <<>>
    /\ Len(last.ret.b) = ABYTES("aes256gcm")

\* C9: beforenm with a key of another length than KEYBYTES fails with a
\* length error, the key expansion not called; with a key of KEYBYTES it
\* calls the key expansion and returns a state of statebytes bytes, or
\* undefined when the key expansion reports failure.
C9_Beforenm ==
    (last.fn = "crypto_aead_aes256gcm_beforenm" /\ IsBuffer(Arg(last.info, 0))) =>
        IF Len(last.info[1].b) # KEYBYTES("aes256gcm")
        THEN /\ last.err = InvalidLength("key")
             /\ last.prim = 0
             /\ last.ret = Null
        ELSE /\ last.prim = 1
             /\ last.rc = <<0>> =>
                   /\ IsBuffer(last.ret)
                   /\ Len(last.ret.b) = crypto_aead_aes256gcm_statebytes
             /\ last.rc = <<-1>> => last.ret = Undefined

\* C9 witness: beforenm has refused a key one byte too long.
C9_Witness ==
    /\ last.fn = "crypto_aead_aes256gcm_beforenm"
    /\ Len(last.info) = 1
    /\ Len(last.info[1].b) = KEYBYTES("aes256gcm") + 1
    /\ last.err = InvalidLength("key")
    /\ last.prim = 0

\* C10: the documented call crypto_aead_aes256gcm_decrypt_detached_afternm(
\* cipherText, mac, nonce, ctx), on the cipherText and mac that
\* crypto_aead_aes256gcm_encrypt_detached_afternm returned for the same
\* nonce and ctx, returns the original message.
C10_DocumentedCallReturnsMessage ==
    (/\ held.fn = "crypto_aead_aes256gcm_encrypt_detached_afternm"
     /\ last.fn = "crypto_aead_aes256gcm_decrypt_detached_afternm"
     /\ last.info = <<Buffer(held.ret.b), Buffer(held.ret.mac),
                      held.info[3], held.info[4]>>)
        => last.ret = held.info[1]

\* C11: in a combined encrypt, key-based or state-based, the output buffer
\* of len(message) + ABYTES bytes is all zero when the primitive is invoked.
C11_OutputZeroedBeforePrimitive ==
    (last.fn \in CombinedEncryptFns /\ last.prim = 1)
        => /\ Len(last.out0) = Len(last.info[1].b) + ABYTES(algo)
           /\ \A i \in 1..Len(last.out0) : last.out0[i] = 0

\* C11 witness: the state-based combined encrypt of a two-byte message has
\* invoked the primitive, also one that then reported failure, on a buffer
\* of two bytes and ABYTES that held zeros.
C11_Witness ==
    /\ last.fn = "crypto_aead_aes256gcm_encrypt_afternm"
    /\ last.prim = 1
    /\ last.rc = <<-1>>
    /\ Len(message) = 2
    /\ last.out0 = Zeros(2 + ABYTES("aes256gcm"))

\* a step in which an exported function is called and returns
CallStep == Idle /\ ~Idle'

====
